---------------------------- MODULE Spec2Model ----------------------------
(***************************************************************************)
(* A model of the OPEC TimeLine widget (opec.TimeLine, a d3.js chart).     *)
(*                                                                         *)
(* Conventions of the model                                                *)
(*  - A Date is an integer count of seconds from a reference instant (a    *)
(*    JavaScript Date holds whole milliseconds; the model keeps whole      *)
(*    seconds, so the source's millisecond literals appear divided by      *)
(*    1000: 4e7 ms is 40000 s, 15778450000 ms is 15778450 s).  A Date      *)
(*    built from a fractional time value is cut to a whole number          *)
(*    toward zero (TimeClip).                                              *)
(*  - A pixel coordinate along x is a rational.  The coordinate that       *)
(*    xScale gives a date is held as its numerator over the domain span:   *)
(*    x = xn / (d1 - d0).  Arithmetic is exact (no floating-point error).  *)
(*  - A field whose JavaScript value is undefined, NaN or an Invalid Date   *)
(*    has no integer value: its name is in the set "invalid", and the      *)
(*    integer the model keeps for it means nothing.                        *)
(*  - Every handler runs to completion (single-threaded event loop): one   *)
(*    action per handler.  d3 transitions are taken at their end values.   *)
(***************************************************************************)
EXTENDS Integers, Sequences, FiniteSets, TLC

VARIABLES
    visible, timebars, barHeight, barMargin, now, selectedDate, draggedDate,
    margin, laneHeight, height, chartHeight, chartWidth, width,
    xScale,        \* [domain |-> <<d0, d1>>, range |-> <<r0, r1>>]
    yScale,        \* [domain |-> <<0, n>>,  range |-> <<0, height>>]
    zoom,          \* d3.behavior.zoom: [x0 |-> copy of xScale, translate, scale]
    xAxis,         \* d3.svg.axis configuration: [unit, step, format]
    axisDrawn,     \* the axis as last painted: [unit, step, format, y]
    chartSize,     \* sizes set on the container div, the svg and the main group
    sepLines, bars, dateDetails, labels,   \* the joined visual elements
    nowLineX, selectedDateLineX,           \* the two marker positions
    containerWidth,  \* DOM: current pixel width of the container div
    dragging,        \* d3.behavior.drag: a gesture on the marker is in progress
    redraws,         \* number of redraw() calls made by the last handler
    mapCalls,        \* arguments of map.filterLayersByDate calls of the last handler
    pickerCalls,     \* arguments of datepicker('setDate') calls of the last handler
    invalid,         \* names of the fields and attributes that hold undefined, NaN
                     \* or an Invalid Date
    handlers,        \* the event listeners the constructor has registered
    console,         \* messages written with console.error
    container,       \* DOM: the page has the div the widget was given
    colours,         \* d3.scale.category10(): its domain, the lane indices it has
                     \* been asked for, in the order of the first request
    tweens,          \* the d3 build: when a transition evaluates an attribute given
                     \* as a function, "scheduled" (inside .attr) or "started" (at
                     \* the first timer tick after the handler)
    pending,         \* the lanes of the bar transitions that are scheduled and have
                     \* not started, in the order they were scheduled (a lane once)
    lastOp,          \* the handler that ran last, its argument, and for a removal
                     \* the bars before it
    dragEvents       \* number of drag events d3 has dispatched so far

vars == << visible, timebars, barHeight, barMargin, now, selectedDate, draggedDate,
           margin, laneHeight, height, chartHeight, chartWidth, width,
           xScale, yScale, zoom, xAxis, axisDrawn, chartSize,
           sepLines, bars, dateDetails, labels, nowLineX, selectedDateLineX,
           containerWidth, dragging, redraws, mapCalls, pickerCalls,
           invalid, handlers, console, container, colours, tweens, pending,
           lastOp, dragEvents >>

-----------------------------------------------------------------------------
(* Bounds of the model *)

\* most bars the bar-structure specification lets timebars hold
MaxBars == 3
\* most bars the full specification lets timebars hold
MaxBarsFull == 1
\* most drag events the model lets d3 dispatch
MaxDragEvents == 2
\* most bars the colour specification lets timebars hold
MaxColourBars == 3

-----------------------------------------------------------------------------
(* Program constants *)

DefaultBarHeight == 20
DefaultBarMargin == 4
\* 15778450000 ms
HalfYear == 15778450
\* 4e7 ms
TickDensity == 40000
DefaultHeight == 25
\* d3.scale.category10() has ten colours
PaletteSize == 10
AxisReserve == 20

-----------------------------------------------------------------------------
(* Arithmetic helpers *)

\* largest integer <= a / b, for b > 0
Floor(a, b) == a \div b

\* Math.round(a / b) and d3.round(a / b), for b > 0: halves round up
Round(a, b) == Floor(2 * a + b, 2 * b)

Abs(a) == IF a < 0 THEN -a ELSE a

\* new Date(a / b), for b > 0: the time value is cut toward zero
TimeClip(a, b) == IF a >= 0 THEN a \div b ELSE -((-a) \div b)

RECURSIVE SeqMin(_)
SeqMin(s) == IF Len(s) = 1 THEN Head(s)
             ELSE LET m == SeqMin(Tail(s)) IN IF Head(s) < m THEN Head(s) ELSE m

\* a maximum that takes the last element
SeqMaxLast(s) == s[Len(s)]

RECURSIVE SeqMax(_)
SeqMax(s) == IF Len(s) = 1 THEN Head(s)
             ELSE LET m == SeqMax(Tail(s)) IN IF Head(s) > m THEN Head(s) ELSE m


-----------------------------------------------------------------------------
(* Scales (d3.time.scale / d3.scale.linear) *)

Span(s) == s.domain[2] - s.domain[1]

Extent(s) == s.range[2] - s.range[1]

\* xScale(d) as a numerator over Span(s); a collapsed domain maps to range[0]
ScaleNum(s, d) == IF Span(s) = 0 THEN s.range[1]
                  ELSE s.range[1] * Span(s) + (d - s.domain[1]) * Extent(s)

ScaleDen(s) == IF Span(s) = 0 THEN 1 ELSE Span(s)

\* xScale.invert(x) for x = xn / ScaleDen(s): new Date(d0 + (x - r0) / (r1 - r0) * span)
Invert(s, xn) == IF Span(s) = 0 \/ Extent(s) = 0 THEN s.domain[1]
                 ELSE TimeClip(s.domain[1] * Extent(s) + xn - s.range[1] * Span(s),
                               Extent(s))

\* d3.round(xScale(d) + 0.5)
PixelOf(s, d) == Floor(ScaleNum(s, d), ScaleDen(s)) + 1

\* d3.round(xScale(d) - 1.5)
MarkerOf(s, d) == Floor(ScaleNum(s, d), ScaleDen(s)) - 1

\* d3.round(yScale(i2 / 2) + halves / 2) for the linear lane scale
LaneRound(s, i2, halves) ==
    LET n == s.domain[2] - s.domain[1]
        h == s.range[2] - s.range[1]
    IN IF n = 0 THEN Round(2 * s.range[1] + halves, 2)
       ELSE Round(2 * n * s.range[1] + (i2 - 2 * s.domain[1]) * h + halves * n, 2 * n)

-----------------------------------------------------------------------------
(* Tick policy (redraw, the x-axis scale) *)

\* getNearestInArray(arr, goal) for goal = gn / gd, gd > 0; closest is << >> while
\* it is null, and << e >> once it is the element e
\* the search that also takes an element as near as the closest so far
RECURSIVE NearestFromLast(_, _, _, _)
NearestFromLast(arr, gn, gd, closest) ==
    IF arr = << >> THEN closest
    ELSE LET e == Head(arr)
             c == IF closest = << >> \/ Abs(e * gd - gn) <= Abs(closest[1] * gd - gn)
                  THEN << e >> ELSE closest
         IN NearestFromLast(Tail(arr), gn, gd, c)

RECURSIVE NearestFrom(_, _, _, _)
NearestFrom(arr, gn, gd, closest) ==
    IF arr = << >> THEN closest
    ELSE LET e == Head(arr)
             c == IF closest = << >> \/ Abs(e * gd - gn) < Abs(closest[1] * gd - gn)
                  THEN << e >> ELSE closest
         IN NearestFrom(Tail(arr), gn, gd, c)

getNearestInArray(arr, gn, gd) ==
    LET closest == NearestFrom(arr, gn, gd, << >>)
    IN IF closest = << >> THEN "null" ELSE closest[1]

MonthSteps == << 1, 2, 3, 4, 6, 12 >>

\* TickPolicy with the thresholds on the wrong side: a value on a boundary goes to
\* the branch above it
TickPolicyLoose(span, w, old) ==
    LET den == w * TickDensity
    IN IF span >= 12 * den
       THEN [unit |-> "years", step |-> Round(span, 12 * den), format |-> "%Y"]
       ELSE IF span >= den
       THEN [unit |-> "months", step |-> getNearestInArray(MonthSteps, span, den),
             format |-> "%b %y"]
       ELSE IF 7 * span >= den
       THEN [unit |-> "weeks", step |-> Round(43 * span, 10 * den), format |-> "%d/%m/%y"]
       ELSE IF 365 * span >= den
       THEN [unit |-> "days", step |-> Round(30 * span, den), format |-> "%d/%m/%y"]
       ELSE [unit |-> "hours", step |-> Round(730 * span, den), format |-> "%I %p"]

\* scaling = span / (w * 4e7); the branch of the if/else-if chain and its ticks
TickPolicy(span, w, old) ==
    LET den == w * TickDensity
    IN IF span > 12 * den
       THEN [unit |-> "years", step |-> Round(span, 12 * den), format |-> "%Y"]
       ELSE IF span <= 12 * den /\ span > den
       THEN [unit |-> "months", step |-> getNearestInArray(MonthSteps, span, den),
             format |-> "%b %y"]
       ELSE IF span <= den /\ 7 * span > den
       THEN [unit |-> "weeks", step |-> Round(43 * span, 10 * den), format |-> "%d/%m/%y"]
       ELSE IF 7 * span <= den /\ 365 * span > den
       THEN [unit |-> "days", step |-> Round(30 * span, den), format |-> "%d/%m/%y"]
       ELSE IF 365 * span <= den
       THEN [unit |-> "hours", step |-> Round(730 * span, den), format |-> "%I %p"]
       ELSE old

-----------------------------------------------------------------------------
(* The widget as a record, so that a handler's calls compose *)

Widget ==
    [ visible |-> visible, timebars |-> timebars, barHeight |-> barHeight,
      barMargin |-> barMargin, now |-> now, selectedDate |-> selectedDate,
      draggedDate |-> draggedDate, margin |-> margin, laneHeight |-> laneHeight,
      height |-> height, chartHeight |-> chartHeight, chartWidth |-> chartWidth,
      width |-> width, xScale |-> xScale, yScale |-> yScale, zoom |-> zoom,
      xAxis |-> xAxis, axisDrawn |-> axisDrawn, chartSize |-> chartSize,
      sepLines |-> sepLines, bars |-> bars, dateDetails |-> dateDetails,
      labels |-> labels, nowLineX |-> nowLineX,
      selectedDateLineX |-> selectedDateLineX,
      invalid |-> invalid, handlers |-> handlers, console |-> console,
      container |-> container, colours |-> colours, tweens |-> tweens,
      pending |-> pending,
      redraws |-> 0, mapCalls |-> << >>, pickerCalls |-> << >> ]

\* the state after a handler that leaves the widget as w
Becomes(w) ==
    /\ visible' = w.visible /\ timebars' = w.timebars /\ barHeight' = w.barHeight
    /\ barMargin' = w.barMargin /\ now' = w.now /\ selectedDate' = w.selectedDate
    /\ draggedDate' = w.draggedDate /\ margin' = w.margin
    /\ laneHeight' = w.laneHeight /\ height' = w.height
    /\ chartHeight' = w.chartHeight /\ chartWidth' = w.chartWidth
    /\ width' = w.width /\ xScale' = w.xScale /\ yScale' = w.yScale
    /\ zoom' = w.zoom /\ xAxis' = w.xAxis /\ axisDrawn' = w.axisDrawn
    /\ chartSize' = w.chartSize /\ sepLines' = w.sepLines /\ bars' = w.bars
    /\ dateDetails' = w.dateDetails /\ labels' = w.labels
    /\ nowLineX' = w.nowLineX /\ selectedDateLineX' = w.selectedDateLineX
    /\ invalid' = w.invalid /\ handlers' = w.handlers /\ console' = w.console
    /\ container' = w.container /\ colours' = w.colours /\ tweens' = w.tweens
    /\ pending' = w.pending
    /\ redraws' = w.redraws /\ mapCalls' = w.mapCalls
    /\ pickerCalls' = w.pickerCalls

\* the state right after construction has left the widget as w
Starts(w) ==
    /\ visible = w.visible /\ timebars = w.timebars /\ barHeight = w.barHeight
    /\ barMargin = w.barMargin /\ now = w.now /\ selectedDate = w.selectedDate
    /\ draggedDate = w.draggedDate /\ margin = w.margin
    /\ laneHeight = w.laneHeight /\ height = w.height
    /\ chartHeight = w.chartHeight /\ chartWidth = w.chartWidth
    /\ width = w.width /\ xScale = w.xScale /\ yScale = w.yScale
    /\ zoom = w.zoom /\ xAxis = w.xAxis /\ axisDrawn = w.axisDrawn
    /\ chartSize = w.chartSize /\ sepLines = w.sepLines /\ bars = w.bars
    /\ dateDetails = w.dateDetails /\ labels = w.labels
    /\ nowLineX = w.nowLineX /\ selectedDateLineX = w.selectedDateLineX
    /\ invalid = w.invalid /\ handlers = w.handlers /\ console = w.console
    /\ container = w.container /\ colours = w.colours /\ tweens = w.tweens
    /\ pending = w.pending
    /\ redraws = w.redraws /\ mapCalls = w.mapCalls
    /\ pickerCalls = w.pickerCalls

-----------------------------------------------------------------------------
(* Geometry *)

\* reHeight without the default height for no bars
reHeightNoDefault(w) ==
    LET h == w.laneHeight * Len(w.timebars)
    IN [w EXCEPT !.height = h,
                 !.chartHeight = h + w.margin.top + w.margin.bottom + AxisReserve]

\* (a NaN laneHeight gives a NaN product, which is not === 0)
reHeight(w) ==
    LET h0 == w.laneHeight * Len(w.timebars)
        h  == IF h0 = 0 THEN DefaultHeight ELSE h0
    IN IF "laneHeight" \in w.invalid
       THEN [w EXCEPT !.height = 0, !.chartHeight = 0,
                      !.invalid = @ \cup { "height", "chartHeight" }]
       ELSE [w EXCEPT !.height = h,
                      !.chartHeight = h + w.margin.top + w.margin.bottom + AxisReserve,
                      !.invalid = @ \ { "height", "chartHeight" }]

reWidth(w, cw) ==
    [w EXCEPT !.chartWidth = cw,
              !.width = cw - w.margin.right - w.margin.left]

-----------------------------------------------------------------------------
(* redraw: the data joins *)

\* selection.data(data): elements are matched to data by index; the matched keep
\* their attributes and get the new datum, the rest of the data enters
\* a join that matches nothing: every datum enters again, after the old elements
JoinAppending(old, data, entering) == old \o entering

\* (entering[p] is the element enter() would make for data[p])
Join(old, data, entering) ==
    [p \in 1..Len(data) |->
        IF p <= Len(old) THEN [old[p] EXCEPT !.datum = data[p]] ELSE entering[p]]

\* d3.scale.ordinal with an implicit domain: a key not seen before is pushed
\* onto the domain
Seen(dom, key) ==
    IF \E k \in 1..Len(dom) : dom[k] = key THEN dom ELSE Append(dom, key)

RECURSIVE SeenAll(_, _)
SeenAll(dom, keys) ==
    IF keys = << >> THEN dom ELSE SeenAll(Seen(dom, Head(keys)), Tail(keys))

\* colours(key), once key is in the domain: the palette entry of the key's rank
\* in the domain, modulo the palette length
Colour(dom, key) ==
    ((CHOOSE k \in 1..Len(dom) : dom[k] = key) - 1) % PaletteSize

\* the lanes, in order, for which a redraw appends an element to a layer that
\* has 'have' elements and whose datum satisfies 'wanted'
Entering(have, data, wanted) ==
    SelectSeq([p \in 1..(Len(data) - have) |-> have + p - 1],
              LAMBDA i : wanted[i + 1])

EnterSepLine(w, d, i) ==
    [datum |-> d, y1 |-> LaneRound(w.yScale, 2 * i, 1),
     y2 |-> LaneRound(w.yScale, 2 * i, 1), x2 |-> 0]

\* the stroke is set through a transition: << >> until the transition has
\* evaluated self.colours(i)
EnterBar(w, d, i) ==
    [datum |-> d, y |-> LaneRound(w.yScale, 2 * i, 2 * w.barMargin + 1),
     height |-> Round(2 * w.barHeight + 1, 2), x |-> 0, width |-> 0,
     stroke |-> IF w.tweens = "scheduled" THEN << Colour(w.colours, i) >> ELSE << >>]

EnterDetail(w, d, i) ==
    [datum |-> d,
     lines |-> [k \in 1..Len(d.dateTimes) |->
        [datum |-> d.dateTimes[k],
         y1 |-> LaneRound(w.yScale, 2 * i, 2 * w.barMargin + 3),
         y2 |-> LaneRound(w.yScale, 2 * i, 2 * (w.laneHeight - w.barMargin) + 1),
         x |-> 0, stroke |-> Colour(w.colours, i)]]]

EnterLabel(w, d, i) ==
    [datum |-> d, text |-> d.label, y |-> LaneRound(w.yScale, 2 * i + 1, 0)]

\* the attributes redraw computes, by name in "invalid"
Attributes == { "yScale", "chartSize", "axisY", "lanes", "positions", "marker" }

\* the attributes that come out NaN: those computed from a NaN height, from a
\* domain of Invalid Dates, or from an Invalid selected date
InvalidAttributes(w) ==
    (IF "height" \in w.invalid THEN { "yScale", "chartSize", "axisY", "lanes" } ELSE { })
      \cup (IF "domain" \in w.invalid THEN { "positions", "marker" } ELSE { })
      \cup (IF "selectedDate" \in w.invalid THEN { "marker" } ELSE { })

redraw(w0) ==
    LET n == Len(w0.timebars)
        \* the calls of self.colours(i) in the order the redraw makes them: for
        \* the entering bars when the transition evaluates at once, then for the
        \* detail lines of the entering bars that have dateTimes
        entered    == IF n > Len(w0.bars)
                      THEN Entering(Len(w0.bars), w0.timebars, [p \in 1..n |-> TRUE])
                      ELSE << >>
        barKeys    == IF w0.tweens = "scheduled" THEN entered ELSE << >>
        detailKeys == IF n > Len(w0.dateDetails)
                      THEN Entering(Len(w0.dateDetails), w0.timebars,
                                    [p \in 1..n |-> w0.timebars[p].dateTimes # << >>])
                      ELSE << >>
        \* recalculate the x and y scales
        w == [w0 EXCEPT !.xScale.range = << 0, w0.width >>,
                        !.yScale = [domain |-> << 0, Len(w0.timebars) >>,
                                    range |-> << 0, w0.height >>],
                        !.colours = SeenAll(SeenAll(@, barKeys), detailKeys),
                        \* a transition stays scheduled when its rect is removed
                        !.pending = IF w0.tweens = "started" THEN SeenAll(@, entered)
                                    ELSE @]
        seps    == Join(w.sepLines, w.timebars,
                        [p \in 1..Len(w.timebars) |-> EnterSepLine(w, w.timebars[p], p - 1)])
        rects   == Join(w.bars, w.timebars,
                        [p \in 1..Len(w.timebars) |-> EnterBar(w, w.timebars[p], p - 1)])
        details == Join(w.dateDetails, w.timebars,
                        [p \in 1..Len(w.timebars) |-> EnterDetail(w, w.timebars[p], p - 1)])
        texts   == Join(w.labels, w.timebars,
                        [p \in 1..Len(w.timebars) |-> EnterLabel(w, w.timebars[p], p - 1)])
    IN [w EXCEPT
          !.chartSize = [container |-> w.chartHeight, shown |-> w.chartSize.shown,
                         mainWidth |-> w.width, mainHeight |-> w.height,
                         chartWidth |-> w.chartWidth, chartHeight |-> w.chartHeight],
          \* the axis is painted with the ticks set by the redraw before
          !.axisDrawn = [unit |-> w.xAxis.unit, step |-> w.xAxis.step,
                         format |-> w.xAxis.format, y |-> Round(2 * w.height + 1, 2)],
          \* a NaN scaling matches no branch
          !.xAxis = IF "domain" \in w.invalid THEN w.xAxis
                    ELSE TickPolicy(Span(w.xScale), w.width, w.xAxis),
          !.invalid = (@ \ Attributes) \cup InvalidAttributes(w),
          !.sepLines = [p \in 1..Len(seps) |-> [seps[p] EXCEPT !.x2 = w.width]],
          !.bars = [p \in 1..Len(rects) |->
              [rects[p] EXCEPT
                 !.x = PixelOf(w.xScale, rects[p].datum.startDate),
                 !.width = Round(ScaleNum(w.xScale, rects[p].datum.endDate)
                                   - ScaleNum(w.xScale, rects[p].datum.startDate),
                                 ScaleDen(w.xScale))]],
          !.dateDetails = [p \in 1..Len(details) |->
              [details[p] EXCEPT
                 !.lines = [k \in 1..Len(details[p].lines) |->
                     [details[p].lines[k] EXCEPT
                        !.x = PixelOf(w.xScale, details[p].lines[k].datum)]]]],
          !.nowLineX = PixelOf(w.xScale, w.now),
          !.selectedDateLineX = MarkerOf(w.xScale, w.selectedDate),
          !.labels = texts,
          !.redraws = @ + 1]

-----------------------------------------------------------------------------
(* Construction *)

\* an option of the options object: a key that is not there, null, or a value
Absent == << "undefined" >>
Null == << "null" >>
Val(v) == << "value", v >>

NoMargins == [top |-> 0, right |-> 0, bottom |-> 0, left |-> 0]

\* new opec.TimeLine(id, options) on a container cw pixels wide, at time t
TimeLine(o, cw, t) ==
    LET \* options.timebars instanceof Array
        tb  == IF o.timebars[1] = "value" THEN o.timebars[2] ELSE << >>
        \* options.x !== null ? options.x : default; an absent key is not null,
        \* and its value undefined is kept (new Date(undefined) is an Invalid Date)
        bh  == IF o.barHeight # Null
               THEN (IF o.barHeight = Absent THEN 0 ELSE o.barHeight[2])
               ELSE DefaultBarHeight
        bm  == IF o.barMargin # Null
               THEN (IF o.barMargin = Absent THEN 0 ELSE o.barMargin[2])
               ELSE DefaultBarMargin
        sel == IF o.selectedDate # Null
               THEN (IF o.selectedDate = Absent THEN 0 ELSE o.selectedDate[2])
               ELSE t
        \* options.chartMargins || default
        mg  == IF o.chartMargins[1] = "value" THEN o.chartMargins[2] ELSE NoMargins
        nobh  == o.barHeight = Absent
        nobm  == o.barMargin = Absent
        nosel == o.selectedDate = Absent
        inv == (IF nobh THEN { "barHeight" } ELSE { })
                 \cup (IF nobm THEN { "barMargin" } ELSE { })
                 \cup (IF nobh \/ nobm THEN { "laneHeight" } ELSE { })
                 \cup (IF nosel THEN { "selectedDate", "draggedDate" } ELSE { })
                 \cup (IF nosel /\ tb = << >> THEN { "domain" } ELSE { })
        w1  == [ visible |-> TRUE, timebars |-> tb, barHeight |-> bh, barMargin |-> bm,
                 now |-> t, selectedDate |-> sel, draggedDate |-> sel, margin |-> mg,
                 laneHeight |-> IF nobh \/ nobm THEN 0 ELSE bh + bm * 2 + 1,
                 height |-> 0, chartHeight |-> 0, chartWidth |-> 0, width |-> 0,
                 xScale |-> [domain |-> << 0, 1 >>, range |-> << 0, 1 >>],
                 yScale |-> [domain |-> << 0, 1 >>, range |-> << 0, 1 >>],
                 zoom |-> [x0 |-> [domain |-> << 0, 1 >>, range |-> << 0, 1 >>],
                           translate |-> 0, scale |-> 1],
                 xAxis |-> [unit |-> "default", step |-> 10, format |-> "default"],
                 axisDrawn |-> [unit |-> "none", step |-> 0, format |-> "none", y |-> 0],
                 chartSize |-> [container |-> 0, shown |-> TRUE, mainWidth |-> 0,
                                mainHeight |-> 0, chartWidth |-> 0, chartHeight |-> 0],
                 sepLines |-> << >>, bars |-> << >>, dateDetails |-> << >>,
                 labels |-> << >>, nowLineX |-> 0, selectedDateLineX |-> 0,
                 invalid |-> inv,
                 handlers |-> { "zoom", "drag", "dragend", "resize" },
                 console |-> << >>, container |-> TRUE,
                 \* a fresh ordinal scale has an empty domain
                 colours |-> << >>, tweens |-> tweens, pending |-> << >>,
                 redraws |-> 0, mapCalls |-> << >>, pickerCalls |-> << >> ]
        w2  == reWidth(reHeight(w1), cw)
        minDate == IF tb = << >> THEN (IF nosel THEN 0 ELSE sel - HalfYear)
                   ELSE SeqMin([p \in 1..Len(tb) |-> tb[p].startDate])
        maxDate == IF tb = << >> THEN (IF nosel THEN 0 ELSE sel + HalfYear)
                   ELSE SeqMax([p \in 1..Len(tb) |-> tb[p].endDate])
        xs  == [domain |-> << minDate, maxDate >>, range |-> << 0, w2.width >>]
        w3  == [w2 EXCEPT !.xScale = xs,
                          !.yScale = [domain |-> << 0, Len(tb) >>,
                                      range |-> << 0, w2.height >>],
                          !.zoom = [x0 |-> xs, translate |-> 0, scale |-> 1],
                          !.axisDrawn.y = Round(2 * w2.height + 1, 2)]
    IN redraw(w3)

\* the fields the constructor assigns
Fields ==
    { "visible", "timebars", "barHeight", "barMargin", "now", "selectedDate",
      "draggedDate", "margin", "laneHeight", "height", "chartHeight", "chartWidth",
      "width", "domain", "xScale", "yScale", "zoom", "xAxis", "chart", "main",
      "nowLine", "selectedDateLine" }

\* the object 'new opec.TimeLine' yields when the constructor returns at once:
\* no field is assigned, nothing is appended to the page, nothing is registered
Inert(message) ==
    [ visible |-> FALSE, timebars |-> << >>, barHeight |-> 0, barMargin |-> 0,
      now |-> 0, selectedDate |-> 0, draggedDate |-> 0, margin |-> NoMargins,
      laneHeight |-> 0, height |-> 0, chartHeight |-> 0, chartWidth |-> 0,
      width |-> 0,
      xScale |-> [domain |-> << 0, 0 >>, range |-> << 0, 0 >>],
      yScale |-> [domain |-> << 0, 0 >>, range |-> << 0, 0 >>],
      zoom |-> [x0 |-> [domain |-> << 0, 0 >>, range |-> << 0, 0 >>],
                translate |-> 0, scale |-> 1],
      xAxis |-> [unit |-> "none", step |-> 0, format |-> "none"],
      axisDrawn |-> [unit |-> "none", step |-> 0, format |-> "none", y |-> 0],
      chartSize |-> [container |-> 0, shown |-> FALSE, mainWidth |-> 0,
                     mainHeight |-> 0, chartWidth |-> 0, chartHeight |-> 0],
      sepLines |-> << >>, bars |-> << >>, dateDetails |-> << >>, labels |-> << >>,
      nowLineX |-> 0, selectedDateLineX |-> 0,
      invalid |-> Fields, handlers |-> { }, console |-> << message >>,
      container |-> FALSE, colours |-> << >>, tweens |-> tweens,
      pending |-> << >>,
      redraws |-> 0, mapCalls |-> << >>, pickerCalls |-> << >> ]

\* the constructor that does not look for the container
constructUnchecked(exists, o, cw, t) ==
    [TimeLine(o, cw, t) EXCEPT !.container = exists]

\* new opec.TimeLine(id, options): exists tells whether the page has a div of that id
construct(exists, o, cw, t) ==
    IF ~exists THEN Inert("No DIV with ID exists. Cannot render TimeLine.")
    ELSE TimeLine(o, cw, t)

-----------------------------------------------------------------------------
(* The mutation entry points *)

addTimeBarJSON(timeBar) ==
    /\ Becomes(redraw(reHeight([Widget EXCEPT !.timebars = Append(@, timeBar)])))
    /\ lastOp' = [op |-> "addTimeBarJSON", arg |-> timeBar.name, before |-> << >>]
    /\ UNCHANGED << containerWidth, dragging >>

addTimeBar(name, label, startDate, endDate, dateTimes) ==
    LET newTimebar == [name |-> name, label |-> label, startDate |-> startDate,
                       endDate |-> endDate, dateTimes |-> dateTimes]
    IN /\ Becomes(redraw(reHeight([Widget EXCEPT !.timebars = Append(@, newTimebar)])))
       /\ lastOp' = [op |-> "addTimeBar", arg |-> name, before |-> << >>]
       /\ UNCHANGED << containerWidth, dragging >>

\* Array.prototype.splice(index, 1)
Splice1(arr, index) ==
    LET len   == Len(arr)
        start == IF index < 0 THEN (IF len + index < 0 THEN 0 ELSE len + index)
                 ELSE (IF index > len THEN len ELSE index)
    IN [p \in 1..(IF start < len THEN len - 1 ELSE len) |->
           IF p <= start THEN arr[p] ELSE arr[p + 1]]

\* ClearAndRedraw without the clearing: the altered array is redrawn over the old
\* elements
ClearAndRedrawOver(w, temp) == redraw(reHeight([w EXCEPT !.timebars = temp]))

\* ClearAndRedraw that does not recompute the height for the re-instated array
ClearAndRedrawStale(w, temp) ==
    LET cleared == redraw(reHeight([w EXCEPT !.timebars = << >>]))
    IN redraw([cleared EXCEPT !.timebars = temp])

\* clear the display, then re-instate the altered array and redraw
ClearAndRedraw(w, temp) ==
    LET cleared == redraw(reHeight([w EXCEPT !.timebars = << >>]))
    IN redraw(reHeight([cleared EXCEPT !.timebars = temp]))

\* removeTimeBar that redraws once, without clearing the display first
removeTimeBarDirect(index) ==
    /\ Becomes(redraw(reHeight([Widget EXCEPT !.timebars = Splice1(timebars, index)])))
    /\ lastOp' = [op |-> "removeTimeBar", arg |-> index, before |-> timebars]
    /\ UNCHANGED << containerWidth, dragging >>

removeTimeBar(index) ==
    /\ Becomes(ClearAndRedraw(Widget, Splice1(timebars, index)))
    /\ lastOp' = [op |-> "removeTimeBar", arg |-> index, before |-> timebars]
    /\ UNCHANGED << containerWidth, dragging >>

\* the loop without the step back after a removal: the bar that moves into the
\* freed index is skipped
RECURSIVE RemoveLoopSkipping(_, _, _, _)
RemoveLoopSkipping(arr, name, i, match) ==
    IF ~(i < Len(arr)) THEN << arr, match >>
    ELSE IF arr[i + 1].name = name
         THEN RemoveLoopSkipping(Splice1(arr, i), name, i + 1, TRUE)
         ELSE RemoveLoopSkipping(arr, name, i + 1, match)

\* the for loop of removeTimeBarByName from index i (0-based) on: <<array, match>>
RECURSIVE RemoveLoop(_, _, _, _)
RemoveLoop(arr, name, i, match) ==
    IF ~(i < Len(arr)) THEN << arr, match >>
    ELSE IF arr[i + 1].name = name
         THEN RemoveLoop(Splice1(arr, i), name, (i - 1) + 1, TRUE)
         ELSE RemoveLoop(arr, name, i + 1, match)

\* removeTimeBarByName without the early return: it clears and redraws always
removeTimeBarByNameAlways(name) ==
    LET r == RemoveLoop(timebars, name, 0, FALSE)
    IN /\ Becomes(ClearAndRedraw(Widget, r[1]))
       /\ lastOp' = [op |-> "removeTimeBarByName", arg |-> name, before |-> timebars]
       /\ UNCHANGED << containerWidth, dragging >>

removeTimeBarByName(name) ==
    LET r == RemoveLoop(timebars, name, 0, FALSE)
    IN /\ IF ~r[2] THEN Becomes([Widget EXCEPT !.timebars = r[1]])
          ELSE Becomes(ClearAndRedraw(Widget, r[1]))
       /\ lastOp' = [op |-> "removeTimeBarByName", arg |-> name, before |-> timebars]
       /\ UNCHANGED << containerWidth, dragging >>

-----------------------------------------------------------------------------
(* Zoom, reset, show and hide, resize *)

\* d3.behavior.zoom rescale(): the domain the zoom view gives the scale it drives
Rescale(z) ==
    LET x0 == z.x0
        at(r) == TimeClip(x0.domain[1] * z.scale * Extent(x0)
                            + (r - z.translate - z.scale * x0.range[1]) * Span(x0),
                          z.scale * Extent(x0))
    IN << at(x0.range[1]), at(x0.range[2]) >>

\* a zoom or pan gesture tick: the view changes, the domain follows, 'zoom' fires
zoomEvent(translate, scale) ==
    LET z == [zoom EXCEPT !.translate = translate, !.scale = scale]
    IN /\ Becomes(redraw([Widget EXCEPT !.zoom = z, !.xScale.domain = Rescale(z)]))
       /\ lastOp' = [op |-> "zoom", arg |-> << translate, scale >>, before |-> << >>]
       /\ UNCHANGED << containerWidth, dragging >>

reset ==
    LET z == [zoom EXCEPT !.translate = 0, !.scale = 1]
        w == [Widget EXCEPT !.zoom = z, !.xScale.domain = Rescale(z)]
    IN /\ Becomes(redraw(reWidth(reHeight(w), containerWidth)))
       /\ lastOp' = [op |-> "reset", arg |-> 0, before |-> << >>]
       /\ UNCHANGED << containerWidth, dragging >>

zoomDate(startDate, endDate) ==
    /\ Becomes(redraw([Widget EXCEPT !.xScale.domain = << startDate, endDate >>,
                                     !.invalid = @ \ { "domain" }]))
    /\ lastOp' = [op |-> "zoomDate", arg |-> << startDate, endDate >>, before |-> << >>]
    /\ UNCHANGED << containerWidth, dragging >>

hide ==
    /\ Becomes([Widget EXCEPT !.chartSize.chartHeight = 0, !.chartSize.mainHeight = 0,
                              !.chartSize.shown = FALSE, !.visible = FALSE])
    /\ lastOp' = [op |-> "hide", arg |-> 0, before |-> << >>]
    /\ UNCHANGED << containerWidth, dragging >>

show ==
    /\ Becomes([Widget EXCEPT !.chartSize.chartHeight = chartHeight,
                              !.chartSize.mainHeight = height,
                              !.chartSize.shown = TRUE, !.visible = TRUE])
    /\ lastOp' = [op |-> "show", arg |-> 0, before |-> << >>]
    /\ UNCHANGED << containerWidth, dragging >>

\* a resize handler that does not look at the visible flag
windowResizeAlways(cw) ==
    /\ containerWidth' = cw
    /\ Becomes(redraw(reWidth(Widget, cw)))
    /\ lastOp' = [op |-> "resize", arg |-> cw, before |-> << >>]
    /\ UNCHANGED dragging

\* redraw() called from outside, or once more from within a callback
redrawCall ==
    /\ Becomes(redraw(Widget))
    /\ lastOp' = [op |-> "redraw", arg |-> 0, before |-> << >>]
    /\ UNCHANGED << containerWidth, dragging >>

\* the browser window is resized, leaving the container cw pixels wide
windowResize(cw) ==
    /\ containerWidth' = cw
    /\ IF "resize" \in handlers /\ visible THEN Becomes(redraw(reWidth(Widget, cw)))
       ELSE Becomes(Widget)
    /\ lastOp' = [op |-> "resize", arg |-> cw, before |-> << >>]
    /\ UNCHANGED dragging

-----------------------------------------------------------------------------
(* The selected date: setDate and the drag gesture on the marker *)

\* setDate that leaves the dragged date alone
setDateSelectedOnly(date) ==
    /\ Becomes([Widget EXCEPT !.selectedDate = date,
                              !.selectedDateLineX = MarkerOf(xScale, date)])
    /\ lastOp' = [op |-> "setDate", arg |-> date, before |-> << >>]
    /\ UNCHANGED << containerWidth, dragging >>

setDate(date) ==
    /\ Becomes([Widget EXCEPT !.draggedDate = date, !.selectedDate = date,
                              !.selectedDateLineX = MarkerOf(xScale, date),
                              !.invalid = (@ \ { "selectedDate", "draggedDate", "marker" })
                                  \cup (IF "domain" \in @ THEN { "marker" } ELSE { })])
    /\ lastOp' = [op |-> "setDate", arg |-> date, before |-> << >>]
    /\ UNCHANGED << containerWidth, dragging >>

\* the marker rectangle (4 pixels wide) shows in the drawing area, so that a
\* pointer can be pressed on it
MarkerShows ==
    /\ chartSize.shown
    /\ selectedDateLineX + 4 > 0
    /\ selectedDateLineX < width

dragStart ==
    /\ ~dragging
    /\ MarkerShows
    /\ dragging' = TRUE
    /\ Becomes(Widget)
    /\ lastOp' = [op |-> "dragstart", arg |-> 0, before |-> << >>]
    /\ UNCHANGED containerWidth

\* dragDate without the range check: every delta is taken
dragDateUnchecked(dx) ==
    LET den == ScaleDen(xScale)
        x   == ScaleNum(xScale, draggedDate) + dx * den
        d   == Invert(xScale, x)
    IN /\ dragging
       /\ Becomes([Widget EXCEPT !.draggedDate = d,
                                 !.selectedDateLineX = MarkerOf(xScale, d)])
       /\ lastOp' = [op |-> "drag", arg |-> dx, before |-> << >>]
       /\ UNCHANGED << containerWidth, dragging >>

\* dragDate that takes a delta landing exactly on an end of the range
dragDateInclusive(dx) ==
    LET den == ScaleDen(xScale)
        x   == ScaleNum(xScale, draggedDate) + dx * den
        x2  == IF x >= xScale.range[1] * den /\ x <= xScale.range[2] * den
               THEN x ELSE x - dx * den
        d   == Invert(xScale, x2)
    IN /\ dragging
       /\ Becomes([Widget EXCEPT !.draggedDate = d,
                                 !.selectedDateLineX = MarkerOf(xScale, d)])
       /\ lastOp' = [op |-> "drag", arg |-> dx, before |-> << >>]
       /\ UNCHANGED << containerWidth, dragging >>

dragDate(dx) ==
    LET den == ScaleDen(xScale)
        x   == ScaleNum(xScale, draggedDate) + dx * den
        x2  == IF x > xScale.range[1] * den /\ x < xScale.range[2] * den
               THEN x ELSE x - dx * den
        d   == Invert(xScale, x2)
    IN /\ dragging
       /\ Becomes([Widget EXCEPT !.draggedDate = d,
                                 !.selectedDateLineX = MarkerOf(xScale, d)])
       /\ lastOp' = [op |-> "drag", arg |-> dx, before |-> << >>]
       /\ UNCHANGED << containerWidth, dragging >>

\* dragDateEnd that commits the date and tells nobody
dragDateEndSilent ==
    /\ dragging
    /\ dragging' = FALSE
    /\ Becomes([Widget EXCEPT !.selectedDate = draggedDate])
    /\ lastOp' = [op |-> "dragend", arg |-> 0, before |-> << >>]
    /\ UNCHANGED containerWidth

dragDateEnd ==
    /\ dragging
    /\ dragging' = FALSE
    /\ Becomes([Widget EXCEPT !.selectedDate = draggedDate,
                              !.pickerCalls = << draggedDate >>,
                              !.mapCalls = << draggedDate >>])
    /\ lastOp' = [op |-> "dragend", arg |-> 0, before |-> << >>]
    /\ UNCHANGED containerWidth

\* the first timer tick after a handler: the scheduled transitions start, each
\* evaluates self.colours(i) for its lane, and the rects still on the page get
\* the stroke
transitionStart ==
    /\ pending # << >>
    /\ LET dom == SeenAll(colours, pending)
       IN Becomes([Widget EXCEPT
            !.colours = dom,
            !.pending = << >>,
            !.bars = [p \in 1..Len(bars) |->
                IF bars[p].stroke = << >>
                THEN [bars[p] EXCEPT !.stroke = << Colour(dom, p - 1) >>]
                ELSE bars[p]]])
    /\ lastOp' = [op |-> "transitionStart", arg |-> 0, before |-> << >>]
    /\ UNCHANGED << containerWidth, dragging, dragEvents >>

-----------------------------------------------------------------------------
(* Inputs of the model *)

Bar(name, label, startDate, endDate, dateTimes) ==
    [name |-> name, label |-> label, startDate |-> startDate, endDate |-> endDate,
     dateTimes |-> dateTimes]

BarA  == Bar("a", "A", -6000000, 9000000, << 0, 3000000 >>)
BarA2 == Bar("a", "A again", -2000000, 2000000, << >>)
BarB  == Bar("b", "B", 1000000, 12000000, << 5000000 >>)
BarC  == Bar("c", "C", -9000000, -1000000, << -5000000, -4000000 >>)

\* a bar without dateTimes and a bar with one
BarPlain == Bar("p", "P", -1000000, 1000000, << >>)
BarTimed == Bar("t", "T", 0, 2000000, << 1000000 >>)
ColourPool == { BarPlain, BarTimed }

BarPool == { BarA, BarA2, BarB, BarC }
Names == { "a", "b", "c", "zz" }

Nows == { 1000000 }
ContainerWidths == { 4, 10 }
InitialWidths == { 4 }

\* the two ways a d3 build evaluates the functions given to a transition
Timings == { "scheduled", "started" }
AtOnce == { "scheduled" }

NoOptions ==
    [timebars |-> Null, barHeight |-> Null, barMargin |-> Null,
     selectedDate |-> Null, chartMargins |-> Null]

CustomOptions ==
    [timebars |-> Val(<< BarB >>), barHeight |-> Val(10), barMargin |-> Val(2),
     selectedDate |-> Val(4000000),
     chartMargins |-> Val([top |-> 5, right |-> 1, bottom |-> 3, left |-> 1])]

OptionsSet == { NoOptions, CustomOptions }

\* options whose bars are a bar without dateTimes followed by a bar with one
MixedOptions ==
    [timebars |-> Val(<< BarPlain, BarTimed >>), barHeight |-> Null,
     barMargin |-> Null, selectedDate |-> Null, chartMargins |-> Null]

\* the lanes the colour specification removes
ColourRemovals == { 0 }

CustomMargins == [top |-> 5, right |-> 1, bottom |-> 3, left |-> 1]

\* options objects with each key absent, null or given
AnyOptions ==
    [timebars : { Absent, Null, Val(<< >>), Val(<< BarB >>), Val(<< BarA, BarC >>) },
     barHeight : { Absent, Null, Val(10) },
     barMargin : { Absent, Null, Val(2) },
     selectedDate : { Absent, Null, Val(4000000) },
     chartMargins : { Absent, Null, Val(CustomMargins) }]

\* zoom views << translate, scale >> that the gestures reach
ZoomViews == { << 0, 1 >>, << 2, 2 >> }
ZoomRanges == { << -1000000, 3000000 >> }
SetDates == { 2000000, 40000000 }
DragDeltas == { -2, 1, 12 }

\* the smaller inputs of the specification of all handlers
AllPool == { BarA }
AllNames == { "a" }
AllDates == { 40000000 }
AllViews == { << 2, 2 >> }
AllDeltas == { 1 }

-----------------------------------------------------------------------------
(* Specifications *)

\* construction on a page whose d3 build is one of timings
ConstructedOn(timings, options, widths) ==
    \E o \in options, cw \in widths, t \in Nows :
        /\ tweens \in timings
        /\ Starts(TimeLine(o, cw, t))
        /\ containerWidth = cw
        /\ dragging = FALSE
        /\ lastOp = [op |-> "construct", arg |-> o, before |-> << >>]
        /\ dragEvents = 0

\* the build changes the strokes, the domain of colours and the scheduled
\* transitions, and nothing else: the specifications that follow none of these
\* are run on the build that evaluates at once
Constructed(options, widths) == ConstructedOn(AtOnce, options, widths)

\* a drag event, counted
Dragged(dx) ==
    /\ dragEvents < MaxDragEvents
    /\ dragDate(dx)
    /\ dragEvents' = dragEvents + 1

\* the handlers that change the bars, the scale and the selected date, on small
\* inputs
Init == Constructed({ NoOptions }, InitialWidths)

Next ==
    \/ /\ \/ \E b \in AllPool : Len(timebars) < MaxBarsFull /\ addTimeBarJSON(b)
          \/ \E b \in AllPool : Len(timebars) < MaxBarsFull
                /\ addTimeBar(b.name, b.label, b.startDate, b.endDate, b.dateTimes)
          \/ \E i \in 0..MaxBarsFull - 1 : removeTimeBar(i)
          \/ \E n \in AllNames : removeTimeBarByName(n)
          \/ \E v \in AllViews : zoomEvent(v[1], v[2])
          \/ reset
          \/ \E cw \in ContainerWidths : windowResize(cw)
          \/ \E d \in AllDates : setDate(d)
          \/ dragStart
          \/ dragDateEnd
       /\ UNCHANGED dragEvents
    \/ \E dx \in AllDeltas : Dragged(dx)

Spec == Init /\ [][Next]_vars

\* the handlers that change the bars, and those that recompute the geometry
InitBars == Constructed(OptionsSet, InitialWidths)

NextBars ==
    /\ \/ \E b \in BarPool : Len(timebars) < MaxBars /\ addTimeBarJSON(b)
       \/ \E b \in BarPool : Len(timebars) < MaxBars
             /\ addTimeBar(b.name, b.label, b.startDate, b.endDate, b.dateTimes)
       \/ \E i \in -1..MaxBars : removeTimeBar(i)
       \/ \E n \in Names : removeTimeBarByName(n)
       \/ reset
    /\ UNCHANGED dragEvents

SpecBars == InitBars /\ [][NextBars]_vars

\* the handlers that move the selected date and the horizontal scale
InitDrag == Constructed({ NoOptions }, InitialWidths)

NextDrag ==
    \/ /\ \/ \E v \in ZoomViews : zoomEvent(v[1], v[2])
          \/ \E r \in ZoomRanges : zoomDate(r[1], r[2])
          \/ \E cw \in ContainerWidths : windowResize(cw)
          \/ \E d \in SetDates : setDate(d)
          \/ dragStart
          \/ dragDateEnd
       /\ UNCHANGED dragEvents
    \/ \E dx \in DragDeltas : Dragged(dx)

SpecDrag == InitDrag /\ [][NextDrag]_vars

\* the tick policy over domain spans and widths on both sides of each threshold
TickWidths == { 1, 7, 73 }
TickSpans == { 600, 8000, 8001, 40000, 40001, 60000, 100000, 360000, 480000, 480001 }

InitTick == Constructed({ NoOptions }, TickWidths)

NextTick ==
    /\ \/ \E sp \in TickSpans : zoomDate(0, sp)
       \/ \E cw \in TickWidths : windowResize(cw)
    /\ UNCHANGED dragEvents

SpecTick == InitTick /\ [][NextTick]_vars

\* showing and hiding, with the handlers that redraw
InitShow == Constructed(OptionsSet, InitialWidths)

NextShow ==
    /\ \/ hide
       \/ show
       \/ \E cw \in ContainerWidths : windowResize(cw)
       \/ \E b \in AllPool : Len(timebars) < MaxBarsFull
             /\ addTimeBar(b.name, b.label, b.startDate, b.endDate, b.dateTimes)
       \/ \E i \in 0..MaxBarsFull - 1 : removeTimeBar(i)
       \/ \E v \in ZoomViews : zoomEvent(v[1], v[2])
       \/ \E r \in ZoomRanges : zoomDate(r[1], r[2])
       \/ reset
       \/ redrawCall
    /\ UNCHANGED dragEvents

SpecShow == InitShow /\ [][NextShow]_vars

\* construction from every shape of options, with and without the container, and
\* the handlers that need nothing but a constructed widget
InitOptions ==
    \E exists \in BOOLEAN, o \in AnyOptions, cw \in InitialWidths, t \in Nows :
        /\ tweens \in AtOnce
        /\ Starts(construct(exists, o, cw, t))
        /\ containerWidth = IF exists THEN cw ELSE 0
        /\ dragging = FALSE
        /\ lastOp = [op |-> "construct", arg |-> o, before |-> << >>]
        /\ dragEvents = 0

\* a method called on the object of a failed construction throws at its first
\* statement (this.chart is undefined) and changes nothing: only a constructed
\* widget takes the calls
NextOptions ==
    /\ \/ \E cw \in ContainerWidths : windowResize(cw)
       \/ handlers # { } /\ hide
       \/ handlers # { } /\ show
       \/ \E d \in AllDates : handlers # { } /\ setDate(d)
    /\ UNCHANGED dragEvents

SpecOptions == InitOptions /\ [][NextOptions]_vars

\* the handlers that add and remove lanes, and the timer tick that starts the
\* transitions a redraw has scheduled
InitColours == ConstructedOn(Timings, { NoOptions, MixedOptions }, InitialWidths)

NextColours ==
    /\ \/ \E b \in ColourPool : Len(timebars) < MaxColourBars
             /\ addTimeBar(b.name, b.label, b.startDate, b.endDate, b.dateTimes)
       \/ \E i \in ColourRemovals : removeTimeBar(i)
       \/ transitionStart
    /\ UNCHANGED dragEvents

SpecColours == InitColours /\ [][NextColours]_vars

-----------------------------------------------------------------------------
(* Claims *)

AddOps == { "addTimeBar", "addTimeBarJSON" }

\* the bars before a removal without the one at 0-based index i
Without(before, i) ==
    [p \in 1..Len(before) - 1 |-> IF p <= i THEN before[p] ELSE before[p + 1]]

\* C1 as stated: every addTimeBar/addTimeBarJSON increases height by exactly one
\* laneHeight, removeTimeBar of an existing bar decreases it by one laneHeight, and
\* removing the last remaining bar sets height to 25.
C1_AsStated ==
    [][ /\ lastOp'.op \in AddOps => height' = height + laneHeight
        /\ (lastOp'.op = "removeTimeBar" /\ Len(timebars') = Len(timebars) - 1)
             => IF timebars' = << >> THEN height' = 25
                ELSE height' = height - laneHeight ]_vars

\* C1 amended: adding a bar to a widget that holds at least one bar increases
\* height by exactly one laneHeight, and adding a bar to a widget that holds none
\* takes height from the default 25 to one laneHeight; removeTimeBar of an existing
\* bar decreases height by one laneHeight, and removing the last remaining bar sets
\* height to 25.
C1_HeightSteps ==
    [][ /\ (lastOp'.op \in AddOps /\ timebars # << >>) => height' = height + laneHeight
        /\ (lastOp'.op \in AddOps /\ timebars = << >>)
             => (height = 25 /\ height' = laneHeight)
        /\ (lastOp'.op = "removeTimeBar" /\ Len(timebars') = Len(timebars) - 1)
             => IF timebars' = << >> THEN height' = 25
                ELSE height' = height - laneHeight ]_vars

\* a bar was added to an empty widget, then more, and one of three was removed
C1_Witness ==
    /\ lastOp.op = "removeTimeBar"
    /\ Len(lastOp.before) = 3
    /\ Len(timebars) = 2
    /\ height = 2 * laneHeight

\* C2: after construction and after every completed add, remove or reset, height is
\* laneHeight * timebars.length for a non-empty timebars and 25 for an empty one, and
\* chartHeight is height + margin.top + margin.bottom + 20.
C2_Geometry ==
    /\ height = IF timebars # << >> THEN laneHeight * Len(timebars) ELSE 25
    /\ chartHeight = height + margin.top + margin.bottom + 20

\* bars were removed by name from a widget with margins, and some remain
C2_Witness ==
    /\ lastOp.op = "removeTimeBarByName"
    /\ Len(lastOp.before) = 3
    /\ Len(timebars) = 1
    /\ margin.top = 5
    /\ chartHeight = 15 + 5 + 3 + 20

\* C3: removeTimeBarByName(name) removes every bar of that name, adjacent duplicates
\* included, and leaves the other bars in their order.
C3_RemovesAll ==
    lastOp.op = "removeTimeBarByName"
        => timebars = SelectSeq(lastOp.before, LAMBDA b : b.name # lastOp.arg)

\* two adjacent bars of the name were removed from between two others
C3_Witness ==
    /\ lastOp.op = "removeTimeBarByName"
    /\ lastOp.arg = "a"
    /\ Len(lastOp.before) = 3
    /\ lastOp.before[1].name = "a"
    /\ lastOp.before[2].name = "a"
    /\ lastOp.before[3].name # "a"
    /\ Len(timebars) = 1

\* C4: removeTimeBarByName(name) with no bar of that name changes nothing and does
\* not redraw.
C4_NoMatchNoOp ==
    [][ (lastOp'.op = "removeTimeBarByName"
           /\ \A p \in 1..Len(timebars) : timebars[p].name # lastOp'.arg)
          => /\ redraws' = 0
             /\ UNCHANGED << visible, timebars, selectedDate, draggedDate, height,
                             chartHeight, chartWidth, width, xScale, yScale, zoom,
                             xAxis, axisDrawn, chartSize, sepLines, bars,
                             dateDetails, labels, nowLineX, selectedDateLineX >> ]_vars

\* a name no bar has was removed from a widget with bars
C4_Witness ==
    /\ lastOp.op = "removeTimeBarByName"
    /\ lastOp.arg = "zz"
    /\ Len(timebars) = 2
    /\ timebars = lastOp.before
    /\ redraws = 0

\* C5: after removeTimeBar(i) on n bars, 0 <= i < n, timebars holds the n-1 other
\* bars in their order, and the bar, separator, label and detail markers of the bar
\* now at index j sit at lane j, for every j.
C5_LanesAfterRemove ==
    (lastOp.op = "removeTimeBar" /\ lastOp.arg >= 0 /\ lastOp.arg < Len(lastOp.before))
        => /\ timebars = Without(lastOp.before, lastOp.arg)
           /\ Len(bars) = Len(timebars) /\ Len(sepLines) = Len(timebars)
           /\ Len(labels) = Len(timebars) /\ Len(dateDetails) = Len(timebars)
           /\ \A p \in 1..Len(timebars) :
                LET top == (p - 1) * laneHeight
                IN /\ bars[p].datum = timebars[p]
                   /\ bars[p].y = top + barMargin + 1
                   /\ sepLines[p].datum = timebars[p]
                   /\ sepLines[p].y1 = top + 1 /\ sepLines[p].y2 = top + 1
                   /\ labels[p].text = timebars[p].label
                   /\ 2 * labels[p].y >= 2 * top + laneHeight
                   /\ 2 * labels[p].y <= 2 * top + laneHeight + 1
                   /\ dateDetails[p].datum = timebars[p]
                   /\ Len(dateDetails[p].lines) = Len(timebars[p].dateTimes)
                   /\ \A k \in 1..Len(dateDetails[p].lines) :
                        /\ dateDetails[p].lines[k].datum = timebars[p].dateTimes[k]
                        /\ dateDetails[p].lines[k].y1 = top + barMargin + 2
                        /\ dateDetails[p].lines[k].y2 = top + laneHeight - barMargin + 1

\* the middle one of three bars was removed, and the bar after it has detail markers
C5_Witness ==
    /\ lastOp.op = "removeTimeBar"
    /\ lastOp.arg = 1
    /\ Len(lastOp.before) = 3
    /\ Len(timebars) = 2
    /\ timebars[1] # timebars[2]
    /\ timebars[2].dateTimes # << >>

InDomain(s, d) == s.domain[1] <= d /\ d <= s.domain[2]

\* C6 as stated: after every drag event of an active drag, draggedDate lies within
\* the current domain (its pixel position within [0, width]), whatever events came
\* before or in between.
C6_AsStated == (lastOp.op = "drag" /\ dragging) => InDomain(xScale, draggedDate)

\* C6 amended: a drag event never takes draggedDate out of the current domain: if
\* draggedDate lies within the domain before a drag event, it does after it.  (A date
\* that zoom, pan, zoomDate or setDate has left outside the domain stays outside
\* until a delta lands it strictly within the range.)
C6_DragStaysInside ==
    [][ (lastOp'.op = "drag" /\ InDomain(xScale, draggedDate))
          => InDomain(xScale', draggedDate') ]_vars

\* a delta that would leave the range on the right was refused
C6_Witness ==
    /\ lastOp.op = "drag"
    /\ lastOp.arg = 12
    /\ dragging
    /\ InDomain(xScale, draggedDate)
    /\ draggedDate # selectedDate

\* the candidate pixel x of a drag event by dx, as a numerator over the domain span
CandidateNum(dx) ==
    (draggedDate - xScale.domain[1]) * width
        + dx * (xScale.domain[2] - xScale.domain[1])

\* the date xScale.invert gives the pixel of numerator xn: d0 + x * span / width,
\* cut to a whole time value
DateAt(xn) ==
    LET t == xScale.domain[1] * width + xn
    IN IF t >= 0 THEN t \div width ELSE -((-t) \div width)

\* C7 as stated: a candidate x outside the closed interval [0, width] is refused and
\* draggedDate keeps its value; any other x, 0 and width included, makes draggedDate
\* the date at x.
C7_AsStated ==
    [][ lastOp'.op = "drag"
          => LET span == xScale.domain[2] - xScale.domain[1]
                 x    == CandidateNum(lastOp'.arg)
             IN IF x < 0 \/ x > width * span
                THEN draggedDate' = draggedDate
                ELSE draggedDate' = DateAt(x) ]_vars

\* C7 amended: a candidate x that is not strictly inside the range (x <= 0 or
\* x >= width) is refused and draggedDate keeps its value; any x with 0 < x < width
\* makes draggedDate the date at x.
C7_DragStep ==
    [][ lastOp'.op = "drag"
          => LET span == xScale.domain[2] - xScale.domain[1]
                 x    == CandidateNum(lastOp'.arg)
             IN IF x <= 0 \/ x >= width * span
                THEN draggedDate' = draggedDate
                ELSE draggedDate' = DateAt(x) ]_vars

\* a delta of -2 from pixel 2 lands exactly on 0 and was refused
C7_Witness ==
    /\ lastOp.op = "drag"
    /\ lastOp.arg = -2
    /\ dragging
    /\ width = 4
    /\ (draggedDate - xScale.domain[1]) * width
         = 2 * (xScale.domain[2] - xScale.domain[1])

\* C8: at each drag-end selectedDate is taken from draggedDate and the map's
\* filterLayersByDate and the date picker are called once with that date; a drag
\* event neither changes selectedDate nor calls them, and no other handler calls them.
C8_NotifyOnDragEnd ==
    [][ /\ lastOp'.op = "dragend"
             => /\ selectedDate' = draggedDate
                /\ mapCalls' = << draggedDate >>
                /\ pickerCalls' = << draggedDate >>
        /\ lastOp'.op = "drag" => selectedDate' = selectedDate
        /\ lastOp'.op # "dragend" => (mapCalls' = << >> /\ pickerCalls' = << >>) ]_vars

\* a drag that moved the date has ended
C8_Witness ==
    /\ lastOp.op = "dragend"
    /\ dragEvents > 0
    /\ selectedDate # now
    /\ mapCalls = << selectedDate >>

\* C9: whenever no drag is in progress, draggedDate equals selectedDate.
C9_DraggedIsSelected == ~dragging => draggedDate = selectedDate

\* setDate was called after a drag had moved and committed another date
C9_Witness ==
    /\ lastOp.op = "setDate"
    /\ ~dragging
    /\ dragEvents > 0
    /\ draggedDate = 40000000

\* C10: the tick policy picks one branch for every scaling = span / (width * 4e7 ms):
\* years above 12, months above 1 up to 12, weeks above 1/7 up to 1, days above 1/365
\* up to 1/7, hours up to 1/365.
C10_TickBranch ==
    LET span == xScale.domain[2] - xScale.domain[1]
        k    == width * 40000
    IN /\ xAxis.unit \in { "years", "months", "weeks", "days", "hours" }
       /\ xAxis.unit = "years" <=> span > 12 * k
       /\ xAxis.unit = "months" <=> (span <= 12 * k /\ span > k)
       /\ xAxis.unit = "weeks" <=> (span <= k /\ 7 * span > k)
       /\ xAxis.unit = "days" <=> (7 * span <= k /\ 365 * span > k)
       /\ xAxis.unit = "hours" <=> (7 * span <= k /\ 365 * span <= k)

\* the scaling is exactly 1/365 and the ticks are in hours
C10_Witness ==
    /\ width = 73
    /\ xScale.domain[2] - xScale.domain[1] = 8000
    /\ 365 * 8000 = 73 * 40000
    /\ xAxis.unit = "hours"

\* the widget was constructed, and nothing has been called since
JustConstructed == lastOp.op = "construct" /\ handlers # { }

\* C11: at construction the domain is [selectedDate - 15778450000 ms,
\* selectedDate + 15778450000 ms] (15778450 s) when the initial timebars are empty or
\* missing, and otherwise [least startDate, greatest endDate] of the initial bars.
\* (An Invalid selectedDate gives a domain of Invalid Dates.)
C11_InitialDomain ==
    JustConstructed
      => IF lastOp.arg.timebars \in { Absent, Null, Val(<< >>) }
         THEN /\ timebars = << >>
              /\ "domain" \in invalid <=> "selectedDate" \in invalid
              /\ "domain" \notin invalid
                   => xScale.domain = << selectedDate - 15778450, selectedDate + 15778450 >>
         ELSE /\ "domain" \notin invalid
              /\ \E p \in 1..Len(timebars) : xScale.domain[1] = timebars[p].startDate
              /\ \A p \in 1..Len(timebars) : xScale.domain[1] <= timebars[p].startDate
              /\ \E p \in 1..Len(timebars) : xScale.domain[2] = timebars[p].endDate
              /\ \A p \in 1..Len(timebars) : xScale.domain[2] >= timebars[p].endDate

\* constructed with two bars: the least start is the second bar's, the greatest end
\* the first bar's
C11_Witness ==
    /\ JustConstructed
    /\ Len(timebars) = 2
    /\ xScale.domain = << timebars[2].startDate, timebars[1].endDate >>
    /\ timebars[1].startDate > timebars[2].startDate
    /\ timebars[1].endDate > timebars[2].endDate

\* C12: a window-resize event that arrives after hide() and before the next show()
\* changes no geometry and redraws nothing; one that arrives while visible is true
\* recomputes the width from the container and redraws.  (visible is false exactly
\* from hide() to the next show().)
C12_ResizeGated ==
    [][ /\ lastOp'.op = "hide" => ~visible'
        /\ lastOp'.op = "show" => visible'
        /\ lastOp'.op \notin { "hide", "show" } => visible' = visible
        /\ (lastOp'.op = "resize" /\ ~visible)
             => /\ redraws' = 0
                /\ UNCHANGED << chartWidth, width, height, chartHeight, xScale, yScale,
                                chartSize, xAxis, axisDrawn, sepLines, bars,
                                dateDetails, labels, nowLineX, selectedDateLineX >>
        /\ (lastOp'.op = "resize" /\ visible)
             => /\ redraws' = 1
                /\ chartWidth' = containerWidth'
                /\ width' = containerWidth' - margin.right - margin.left
                /\ xScale'.range = << 0, width' >>
                /\ chartSize'.mainWidth = width' ]_vars

\* the window was resized while the widget was hidden: the width is the old one
C12_Witness ==
    /\ lastOp.op = "resize"
    /\ ~visible
    /\ redraws = 0
    /\ containerWidth = 10
    /\ chartWidth = 4

\* C13: constructing on a container id that no element has logs the error and
\* leaves an inert object: no field is initialized, no visual element is created, no
\* redraw has run, and no resize or gesture listener is registered (events that
\* arrive later find nothing to call).
C13_MissingContainer ==
    ~container
      => /\ Len(console) = 1
         /\ invalid = Fields
         /\ { "timebars", "xScale", "yScale", "selectedDate", "visible" } \subseteq invalid
         /\ { "chart", "main", "nowLine", "selectedDateLine" } \subseteq invalid
         /\ sepLines = << >> /\ bars = << >> /\ dateDetails = << >> /\ labels = << >>
         /\ axisDrawn.unit = "none"
         /\ redraws = 0
         /\ handlers = { }

\* the window was resized after a construction that found no container
C13_Witness ==
    /\ ~container
    /\ lastOp.op = "resize"
    /\ handlers = { }
    /\ redraws = 0

\* the options object does not supply the option: the key is absent, or null
NotSupplied(option) == option \in { Absent, Null }

\* C14: for every option the options object does not supply (key absent as well as
\* null) construction uses the default: selectedDate = the construction-time now,
\* chartMargins all 0, barHeight 20, barMargin 4, timebars empty; laneHeight is 29
\* when neither barHeight nor barMargin is given.
C14_AsStated ==
    JustConstructed
      => LET o == lastOp.arg
         IN /\ NotSupplied(o.selectedDate)
                 => ("selectedDate" \notin invalid /\ selectedDate = now)
            /\ NotSupplied(o.chartMargins)
                 => margin = [top |-> 0, right |-> 0, bottom |-> 0, left |-> 0]
            /\ NotSupplied(o.barHeight) => ("barHeight" \notin invalid /\ barHeight = 20)
            /\ NotSupplied(o.barMargin) => ("barMargin" \notin invalid /\ barMargin = 4)
            /\ NotSupplied(o.timebars) => timebars = << >>
            /\ (NotSupplied(o.barHeight) /\ NotSupplied(o.barMargin))
                 => ("laneHeight" \notin invalid /\ laneHeight = 29)

\* C16: in every redraw the tick policy is evaluated before the axis is painted, so
\* the unit, step and format the axis shows after a redraw are the ones the policy
\* selects for the domain and width of that redraw, never those of an earlier one.
C16_AsStated ==
    redraws > 0
      => LET span == xScale.domain[2] - xScale.domain[1]
             k    == width * 40000
         IN /\ axisDrawn.unit = "years" <=> span > 12 * k
            /\ axisDrawn.unit = "months" <=> (span <= 12 * k /\ span > k)
            /\ axisDrawn.unit = "weeks" <=> (span <= k /\ 7 * span > k)
            /\ axisDrawn.unit = "days" <=> (7 * span <= k /\ 365 * span > k)
            /\ axisDrawn.unit = "hours" <=> (7 * span <= k /\ 365 * span <= k)
            /\ axisDrawn.step = xAxis.step
            /\ axisDrawn.format = xAxis.format

\* C17: redraw is idempotent: from every reachable state, redraw called twice in a
\* row leaves the widget and everything drawn (bars, separators, labels, detail
\* markers, the two date markers, the axis with its ticks and format) as redraw
\* called once does.
C17_RedrawIdempotent ==
    LET once  == redraw(Widget)
        twice == redraw(once)
    IN [twice EXCEPT !.redraws = 0] = [once EXCEPT !.redraws = 0]

\* redraw was called on a hidden widget with a bar, after the window had been
\* resized, and the axis shows the ticks configured
C17_Witness ==
    /\ lastOp.op = "redraw"
    /\ ~visible
    /\ Len(bars) = 1
    /\ width # containerWidth - margin.left - margin.right
    /\ axisDrawn.unit = xAxis.unit

\* C18: after construction and after every completed add or remove, in any order,
\* the drawn layers match the data: there are timebars.length bar rectangles,
\* separator lines, labels and detail groups; the i-th label shows timebars[i].label,
\* the i-th bar spans timebars[i].startDate..endDate, the i-th detail group holds one
\* marker per entry of timebars[i].dateTimes; no element of a removed bar remains.
C18_LayersInSync ==
    LET d0   == xScale.domain[1]
        span == xScale.domain[2] - xScale.domain[1]
        n    == Len(timebars)
    IN /\ Len(bars) = n /\ Len(sepLines) = n /\ Len(labels) = n /\ Len(dateDetails) = n
       /\ \A p \in 1..n :
            /\ labels[p].text = timebars[p].label
            /\ labels[p].datum = timebars[p]
            /\ sepLines[p].datum = timebars[p]
            /\ bars[p].datum = timebars[p]
            /\ bars[p].x = (((timebars[p].startDate - d0) * width) \div span) + 1
            /\ bars[p].width
                 = (2 * (timebars[p].endDate - timebars[p].startDate) * width + span)
                     \div (2 * span)
            /\ dateDetails[p].datum = timebars[p]
            /\ Len(dateDetails[p].lines) = Len(timebars[p].dateTimes)
            /\ \A k \in 1..Len(timebars[p].dateTimes) :
                 /\ dateDetails[p].lines[k].datum = timebars[p].dateTimes[k]
                 /\ dateDetails[p].lines[k].x
                      = (((timebars[p].dateTimes[k] - d0) * width) \div span) + 1

\* the first of three bars was removed by name; the two that followed it moved up,
\* the first of them with detail markers
C18_Witness ==
    /\ lastOp.op = "removeTimeBarByName"
    /\ Len(lastOp.before) = 3
    /\ lastOp.before[1].name = lastOp.arg
    /\ Len(timebars) = 2
    /\ labels[1].text = lastOp.before[2].label
    /\ labels[1].text # lastOp.before[1].label
    /\ Len(dateDetails[1].lines) > 0

\* C19: geometry is recomputed before every redraw: at the end of every redraw,
\* whatever triggered it (add, remove, zoom or pan, zoomDate, reset, resize), width is
\* the container's current pixel width minus margin.left and margin.right.
C19_AsStated ==
    redraws > 0 => width = containerWidth - margin.left - margin.right

\* arrays and goals (halves from 0 to 13) for getNearestInArray
NearestArrays == { << >>, << 5 >>, << 1, 2, 3, 4, 6, 12 >>, << 12, 6, 4, 3, 2, 1 >>,
                   << 3, 1, 3, 5 >>, << 4, 2 >> }
NearestGoals == 0..26

\* r is the first element of arr, in array order, nearest to gn / gd
FirstNearest(arr, gn, gd, r) ==
    \E i \in 1..Len(arr) :
        /\ r = arr[i]
        /\ \A j \in 1..Len(arr) : Abs(arr[i] * gd - gn) <= Abs(arr[j] * gd - gn)
        /\ \A j \in 1..(i - 1) : Abs(arr[j] * gd - gn) > Abs(arr[i] * gd - gn)

\* C20: getNearestInArray(arr, goal) returns the first element, in array order, whose
\* absolute difference to goal is least, and null for an empty array; for the month
\* candidates [1, 2, 3, 4, 6, 12] a goal halfway between two candidates gives the
\* earlier (smaller) one, and every scaling in (1, 12] gives a step from that set.
C20_Nearest ==
    /\ \A arr \in NearestArrays, gn \in NearestGoals :
         IF arr = << >> THEN getNearestInArray(arr, gn, 2) = "null"
         ELSE FirstNearest(arr, gn, 2, getNearestInArray(arr, gn, 2))
    /\ \A g \in { << 3, 1 >>, << 5, 2 >>, << 7, 3 >>, << 10, 4 >>, << 18, 6 >> } :
         getNearestInArray(<< 1, 2, 3, 4, 6, 12 >>, g[1], 2) = g[2]
    /\ xAxis.unit = "months"
         => /\ xAxis.step \in { 1, 2, 3, 4, 6, 12 }
            /\ FirstNearest(<< 1, 2, 3, 4, 6, 12 >>,
                            xScale.domain[2] - xScale.domain[1], width * 40000,
                            xAxis.step)

\* the scaling is exactly 1.5, halfway between 1 and 2, and the step is 1 month
C20_Witness ==
    /\ lastOp.op = "zoomDate"
    /\ width = 1
    /\ xScale.domain[2] - xScale.domain[1] = 60000
    /\ xAxis.unit = "months"
    /\ xAxis.step = 1

C22_AsStated ==
    \A p, q \in 1..Len(timebars) : timebars[p].name = timebars[q].name => p = q

\* C23: while a drag is in progress the selected-date marker is drawn at
\* round(scale(draggedDate) - 1.5), also when a redraw (zoom or pan, resize, add or
\* remove) comes between two drag events; it never jumps back to the committed
\* selectedDate before the drag ends.
C23_AsStated ==
    (dragging /\ xScale.domain[2] > xScale.domain[1])
      => selectedDateLineX
           = (((draggedDate - xScale.domain[1]) * width)
                 \div (xScale.domain[2] - xScale.domain[1])) - 1

=============================================================================
